---- MODULE Spec2Model ----
(***************************************************************************)
(* Line-delimited JSON-RPC tool server (xavier.py, xjg.py, xjg_backup.py). *)
(* One model covers the three source variants: they share the main loop    *)
(* and differ in the registered tools, the tools/list branch and the       *)
(* weather argument handling.  The main loop is modelled at the            *)
(* granularity of the points where a signal or an output fault can be      *)
(* observed: readline, decode/dispatch, tool handler, print, flush.        *)
(***************************************************************************)
EXTENDS Integers, Sequences, FiniteSets, TLC

\* ---------------------------------------------------------------- bounds
\* number of input lines the client sends before end-of-stream
MaxLines == 2
\* length of the sessions in which the shapes of params of a tools/call
\* request are enumerated
MaxShapeLines == 1
\* number of one-second sleeps observed in the idle wait
MaxTicks == 1

\* ------------------------------------------------------- program constants
MethodNotFound == 0 - 32601

Variants == {"xavier", "xjg", "xjg_backup"}

\* ------------------------------------------------------------- JSON values
\* A decoded JSON value: t is the Python type, n the number (or list length),
\* s the characters of a string.  Absent marks a key that is not in a mapping.
Absent == [t |-> "absent", n |-> 0, s |-> <<>>]
JNull == [t |-> "null", n |-> 0, s |-> <<>>]
JInt(i) == [t |-> "int", n |-> i, s |-> <<>>]
JStr(cs) == [t |-> "str", n |-> 0, s |-> cs]
JList(k) == [t |-> "list", n |-> k, s |-> <<>>]
JBool(b) == [t |-> "bool", n |-> IF b THEN 1 ELSE 0, s |-> <<>>]

\* dict.get(key, default): the default only replaces a missing key, an
\* explicit null stays None
Get(v, default) == IF v.t = "absent" THEN default ELSE v

\* str(v) as an f-string interpolates it
Fmt(v) ==
  CASE v.t = "str" -> v.s
    [] v.t = "int" -> <<ToString(v.n)>>
    [] v.t = "list" -> IF v.n = 0 THEN <<"[]">> ELSE <<"['x']">>
    [] v.t = "bool" -> IF v.n = 0 THEN <<"False">> ELSE <<"True">>
    [] OTHER -> <<"None">>

\* bool(v): Python truthiness
Truthy(v) ==
  CASE v.t = "str" -> v.s # <<>>
    [] v.t = "int" -> v.n # 0
    [] v.t = "list" -> v.n # 0
    [] v.t = "bool" -> v.n # 0
    [] OTHER -> FALSE

\* --------------------------------------------------------------- str methods
\* mutant of Whitespace: only the space is stripped
Whitespace_spaceOnly == {" "}

\* the characters str.strip() and str.split() treat as white space
Whitespace == {" ", "\n", "\t"}

LowerChar(c) ==
  CASE c = "T" -> "t"
    [] c = "O" -> "o"
    [] c = "D" -> "d"
    [] c = "A" -> "a"
    [] c = "Y" -> "y"
    [] OTHER -> c

\* str.lower()
Lower(cs) == [i \in DOMAIN cs |-> LowerChar(cs[i])]

RECURSIVE LStrip(_)
LStrip(cs) ==
  IF cs # <<>> /\ Head(cs) \in Whitespace THEN LStrip(Tail(cs)) ELSE cs

RECURSIVE RStrip(_)
RStrip(cs) ==
  IF cs # <<>> /\ cs[Len(cs)] \in Whitespace
    THEN RStrip(SubSeq(cs, 1, Len(cs) - 1))
    ELSE cs

\* str.strip()
Strip(cs) == RStrip(LStrip(cs))

\* mutant of ReverseSeq: the characters are rotated by one place
ReverseSeq_rotate(cs) == [i \in DOMAIN cs |-> cs[(i % Len(cs)) + 1]]

\* text[::-1] on a str or a list
ReverseSeq(cs) == [i \in DOMAIN cs |-> cs[Len(cs) + 1 - i]]

\* mutant of SplitCount: len(text.split(" ")), every single space separates
SplitCount_perSpace(cs) == Cardinality({i \in DOMAIN cs : cs[i] = " "}) + 1

\* len(text.split()): the maximal runs of non-whitespace characters
SplitCount(cs) ==
  Cardinality({i \in DOMAIN cs :
                 /\ cs[i] \notin Whitespace
                 /\ (i = 1 \/ cs[i - 1] \in Whitespace)})

\* len(text.replace(" ", ""))
NoSpaceCount(cs) == Cardinality({i \in DOMAIN cs : cs[i] # " "})

\* len(text.splitlines()): a trailing line break opens no further line
SplitLinesCount(cs) ==
  Cardinality({i \in DOMAIN cs : cs[i] = "\n"})
    + (IF cs # <<>> /\ cs[Len(cs)] # "\n" THEN 1 ELSE 0)

\* ------------------------------------------------------------------- texts
T_empty == <<>>
T_space == <<" ">>
T_ab == <<"a", "b">>
T_abc == <<"a", " ", "b", " ", " ", "c">>
T_today == <<"t", "o", "d", "a", "y">>
T_Today == <<"T", "o", "d", "a", "y">>
T_tomorrow == <<"t", "o", "m", "o", "r", "r", "o", "w">>
T_date == <<"2", "0", "2", "4", "-", "0", "1", "-", "1", "5">>
T_junk == <<"x">>
T_frisco == <<"Frisco, Colorado">>
\* a str is a sequence of code points: a character that takes several bytes
\* in UTF-8 (U+00E9 two, U+1F600 four) is one element of it
T_utf == <<"U+00E9", "U+1F600", "z">>

\* datetime.strptime(date_arg, "%Y-%m-%d") succeeds on the dates of the
\* model's inputs that follow the format and raises ValueError on the rest
ParsesAsDate(cs) == cs \in {T_date}

\* ---------------------------------------------------------------- registry
\* the tool names the elif chain of the tools/call branch answers, in order
ToolSeq(v) ==
  CASE v = "xavier" -> <<"echo", "reverse", "word_count", "weather", "get_availability">>
    [] v = "xjg" -> <<"echo", "reverse", "word_count", "weather">>
    [] OTHER -> <<"echo">>

Tools(v) == {ToolSeq(v)[i] : i \in DOMAIN ToolSeq(v)}

HasToolsList(v) == v # "xjg_backup"

ServerName(v) == IF v = "xjg_backup" THEN "xjg-server" ELSE "frisco-weather-server"

\* a JSON schema literal: an object with one string property; pd is the
\* property's description ("" when it has none), req the "required" list
Schema(prop, pd, req) ==
  [type |-> "object", property |-> prop, property_type |-> "string",
   property_description |-> pd, required |-> req]

\* one entry of the "tools" mapping of the tools/declare payload
DeclEntry(nm, d, sch) == [name |-> nm, description |-> d, input_schema |-> sch]

\* one element of the "tools" list of the tools/list result
ListEntry(nm, d, sch) == [name |-> nm, description |-> d, inputSchema |-> sch]

\* the literal of send_tool_declaration(), in the order of its keys
DeclaredTools(v) ==
  CASE v = "xavier" ->
         <<DeclEntry("echo", "Echo back text",
                     Schema("message", "", <<"message">>)),
           DeclEntry("reverse", "Reverse the order of characters in text",
                     Schema("text", "", <<"text">>)),
           DeclEntry("word_count", "Count words, characters, and lines in text",
                     Schema("text", "", <<"text">>)),
           DeclEntry("weather",
                     "Get current weather for a city (defaults to Frisco, Colorado)",
                     Schema("city", "City name (e.g., 'Las Vegas' or 'Denver')", <<>>)),
           DeclEntry("get_availability",
                     "Get calendar availability (busy/free times) - privacy protected",
                     Schema("date",
                            "Date to check - 'today', 'tomorrow', or YYYY-MM-DD format",
                            <<>>))>>
    [] v = "xjg" ->
         <<DeclEntry("echo", "Echo back text",
                     Schema("message", "", <<"message">>)),
           DeclEntry("reverse", "Reverse the order of characters in text",
                     Schema("text", "", <<"text">>)),
           DeclEntry("word_count", "Count words, characters, and lines in text",
                     Schema("text", "", <<"text">>)),
           DeclEntry("weather",
                     "Get current weather for a city (defaults to Frisco, Colorado)",
                     Schema("city", "City name (e.g., 'Las Vegas' or 'Denver')", <<>>))>>
    [] OTHER ->
         <<DeclEntry("echo", "Echo back text",
                     Schema("message", "", <<"message">>))>>

\* mutant of ListedTools: the list literal has drifted from the declaration:
\* weather is listed with a required city
ListedTools_drift(v) ==
  CASE v = "xavier" ->
         <<ListEntry("echo", "Echo back text",
                     Schema("message", "", <<"message">>)),
           ListEntry("reverse", "Reverse the order of characters in text",
                     Schema("text", "", <<"text">>)),
           ListEntry("word_count", "Count words, characters, and lines in text",
                     Schema("text", "", <<"text">>)),
           ListEntry("weather",
                     "Get current weather for a city (defaults to Frisco, Colorado)",
                     Schema("city", "City name (e.g., 'Las Vegas' or 'Denver')",
                            <<"city">>)),
           ListEntry("get_availability",
                     "Get calendar availability (busy/free times) - privacy protected",
                     Schema("date",
                            "Date to check - 'today', 'tomorrow', or YYYY-MM-DD format",
                            <<>>))>>
    [] v = "xjg" ->
         <<ListEntry("echo", "Echo back text",
                     Schema("message", "", <<"message">>)),
           ListEntry("reverse", "Reverse the order of characters in text",
                     Schema("text", "", <<"text">>)),
           ListEntry("word_count", "Count words, characters, and lines in text",
                     Schema("text", "", <<"text">>)),
           ListEntry("weather",
                     "Get current weather for a city (defaults to Frisco, Colorado)",
                     Schema("city", "City name (e.g., 'Las Vegas' or 'Denver')",
                            <<"city">>))>>
    [] OTHER -> <<>>

\* the literal of the tools/list branch (xjg_backup.py has none)
ListedTools(v) ==
  CASE v = "xavier" ->
         <<ListEntry("echo", "Echo back text",
                     Schema("message", "", <<"message">>)),
           ListEntry("reverse", "Reverse the order of characters in text",
                     Schema("text", "", <<"text">>)),
           ListEntry("word_count", "Count words, characters, and lines in text",
                     Schema("text", "", <<"text">>)),
           ListEntry("weather",
                     "Get current weather for a city (defaults to Frisco, Colorado)",
                     Schema("city", "City name (e.g., 'Las Vegas' or 'Denver')", <<>>)),
           ListEntry("get_availability",
                     "Get calendar availability (busy/free times) - privacy protected",
                     Schema("date",
                            "Date to check - 'today', 'tomorrow', or YYYY-MM-DD format",
                            <<>>))>>
    [] v = "xjg" ->
         <<ListEntry("echo", "Echo back text",
                     Schema("message", "", <<"message">>)),
           ListEntry("reverse", "Reverse the order of characters in text",
                     Schema("text", "", <<"text">>)),
           ListEntry("word_count", "Count words, characters, and lines in text",
                     Schema("text", "", <<"text">>)),
           ListEntry("weather",
                     "Get current weather for a city (defaults to Frisco, Colorado)",
                     Schema("city", "City name (e.g., 'Las Vegas' or 'Denver')", <<>>))>>
    [] OTHER -> <<>>


\* ------------------------------------------------------------- input lines
\* One line of standard input.  An object line carries the decoded request:
\* params and arguments are given by their shape ("absent", "null", "list"
\* for a value that is not a mapping, "obj"), name is params["name"] and arg
\* is the value stored in arguments under the key the named tool reads
\* (message, text, city or date).  raw is what readline() returned, as far
\* as the loop looks at it before decoding: the characters of a line of
\* white space, one token for the text of any other line.
M(x) == JStr(<<x>>)

Line(k, m, i, p, nm, a, v) ==
  [kind |-> k, method |-> m, id |-> i, params |-> p, name |-> nm,
   arguments |-> a, arg |-> v,
   raw |-> IF k = "none" THEN <<>> ELSE <<"json", "\n">>]

NoLine == Line("none", Absent, Absent, "absent", Absent, "absent", Absent)

\* a line of white space with the characters cs
WhiteLine(cs) ==
  [Line("blank", Absent, Absent, "absent", Absent, "absent", Absent) EXCEPT !.raw = cs]

BlankLine == WhiteLine(<<"\n">>)
SpaceLine == WhiteLine(<<" ", "\t", "\n">>)
MalformedLine == Line("malformed", Absent, Absent, "absent", Absent, "absent", Absent)
NonObjectLine == Line("nonobject", Absent, Absent, "absent", Absent, "absent", Absent)

Obj(m, i, p, nm, a, v) == Line("object", m, i, p, nm, a, v)

NonNullIds == {JInt(0), JStr(<<"0">>)}
Ids == {Absent, JNull} \cup NonNullIds

AllTools == {"echo", "reverse", "word_count", "weather", "get_availability"}

ArgValsFor(t) ==
  CASE t = "echo" -> {Absent, JNull, JInt(5), JStr(T_ab)}
    [] t = "reverse" -> {Absent, JNull, JInt(5), JList(1), JStr(T_empty), JStr(T_ab),
                         JStr(T_abc), JStr(T_utf)}
    [] t = "word_count" -> {Absent, JNull, JInt(5), JStr(T_empty), JStr(T_space), JStr(T_abc)}
    [] t = "weather" -> {Absent, JNull, JInt(0), JInt(5), JStr(T_space), JStr(T_ab)}
    [] OTHER -> {Absent, JNull, JInt(5), JStr(T_Today), JStr(T_tomorrow),
                 JStr(T_date), JStr(T_junk)}

\* the shapes of params of a tools/call line
CallShapes ==
  {<<p, Absent, "absent", Absent>> : p \in {"absent", "null", "list"}}
    \cup {<<"obj", nm, "absent", Absent>> : nm \in {Absent, M("nope"), JInt(5)}}
    \cup {<<"obj", M(t), a, Absent>> : t \in AllTools, a \in {"absent", "null", "list"}}
    \cup UNION {{<<"obj", M(t), "obj", v>> : v \in ArgValsFor(t)} : t \in AllTools}

\* the shapes that are sent with every non-null id; the others are sent
\* with the id 0
EveryIdShapes ==
  {<<"absent", Absent, "absent", Absent>>,
   <<"null", Absent, "absent", Absent>>,
   <<"obj", M("nope"), "absent", Absent>>,
   <<"obj", M("echo"), "obj", JStr(T_ab)>>}

CallLines ==
  {Obj(M("tools/call"), JInt(0), sh[1], sh[2], sh[3], sh[4]) : sh \in CallShapes}
    \cup {Obj(M("tools/call"), i, sh[1], sh[2], sh[3], sh[4]) :
            i \in NonNullIds, sh \in EveryIdShapes}

\* a request without params
Plain(m, i) == Obj(m, i, "absent", Absent, "absent", Absent)

\* the ids that are not None and falsy: 0, "" and false
FalsyIds == {JInt(0), JStr(<<>>), JBool(FALSE)}

\* every branch of the dispatcher with the falsy ids, and with the id null
\* and missing
IdLines ==
  {Plain(m, i) : m \in {M("initialize"), M("tools/list"), M("foo")},
                 i \in {JStr(<<>>), JBool(FALSE), JNull, Absent}}
    \cup {Obj(M("tools/call"), i, "obj", M("echo"), "obj", JStr(T_ab)) :
            i \in {JStr(<<>>), JBool(FALSE), JNull, Absent}}

\* the lines of the longer sessions: every branch of the dispatcher with
\* and without id, the id missing or null, and three tools/call requests
CoreLines ==
  {BlankLine, SpaceLine, MalformedLine, NonObjectLine}
    \cup {Plain(M("initialize"), i) : i \in Ids}
    \cup {Plain(M("tools/list"), i) : i \in {Absent, JInt(0)}}
    \cup {Plain(M("foo"), i) : i \in {JNull, JStr(<<"0">>)}}
    \cup {Plain(Absent, i) : i \in {Absent, JInt(0)}}
    \cup {Plain(M("tools/call"), Absent),
          Obj(M("tools/call"), JNull, "obj", M("weather"), "obj", JStr(T_ab)),
          Obj(M("tools/call"), JInt(0), "obj", M("echo"), "obj", JStr(T_abc)),
          Obj(M("tools/call"), JStr(<<"0">>), "obj", M("missing"), "absent", Absent),
          Obj(M("tools/call"), JStr(<<"0">>), "obj", M("get_availability"), "obj",
              JStr(T_junk))}

\* the lines that are only sent in the sessions of at most MaxShapeLines
\* lines
ShapeLines == (CallLines \cup IdLines) \ CoreLines

Lines == CoreLines \cup ShapeLines

\* ------------------------------------------------------------ output lines
\* A line of standard output: the dict handed to json.dumps.  keys are its
\* top-level keys; src is the number of the input line during whose handling
\* it was written; tag names the payload and text holds it.
OutLine(src, ks, k, i, b, c, tg, tx) ==
  [src |-> src, keys |-> ks, kind |-> k, id |-> i, body |-> b, code |-> c,
   tag |-> tg, text |-> tx]

NoResp == OutLine(0, {}, "none", Absent, "none", 0, "none", <<>>)

\* json.dumps of the decoded id: the value keeps its JSON type
DumpId(i) ==
  CASE i.t = "int" -> JInt(i.n)
    [] i.t = "str" -> JStr(i.s)
    [] i.t = "bool" -> JBool(i.n # 0)
    [] OTHER -> JNull

\* {"jsonrpc": "2.0", "id": req_id, "result": {...}}
ResultLine(src, i, tg, tx) ==
  OutLine(src, {"jsonrpc", "id", "result"}, "response", DumpId(i), "result", 0, tg, tx)

\* mutant of ErrorLine: the error response also carries an empty result
ErrorLine_withResult(src, i, c, tx) ==
  OutLine(src, {"jsonrpc", "id", "result", "error"}, "response", DumpId(i), "error",
          c, "error", tx)

\* {"jsonrpc": "2.0", "id": req_id, "error": {"code": c, "message": tx}}
ErrorLine(src, i, c, tx) ==
  OutLine(src, {"jsonrpc", "id", "error"}, "response", DumpId(i), "error", c,
          "error", tx)

\* {"jsonrpc": "2.0", "method": "tools/declare", "params": {"tools": {...}}}
Declaration(src, v) ==
  OutLine(src, {"jsonrpc", "method", "params"}, "notification", Absent, "none", 0,
          "tools/declare", DeclaredTools(v))

\* mutant of HasId: "if req_id:", a falsy id counts as no id
HasId_truthy(i) == Truthy(i)

\* mutant of HasId: "id" in req, an explicit null id counts as an id
HasId_keyPresent(i) == i.t # "absent"

\* req_id is not None
HasId(i) == i.t \notin {"absent", "null"}


\* -------------------------------------------------------------------- state
VARIABLES
  variant,      \* which source file runs
  initialized,  \* the session flag
  pc,           \* position of the main thread
  cur,          \* the line being handled
  n,            \* number of lines read so far
  calls,        \* number of lines of ShapeLines read so far
  tool_name,    \* local: params["name"]
  arg,          \* local: city / date_arg of the running handler
  resp,         \* local: response
  buf,          \* lines printed to sys.stdout and not yet flushed
  out,          \* lines the client has received
  status,       \* how the handling of cur ended ("reading" while it runs)
  prev,         \* status of the line before cur
  signalled,    \* signal_handler has run
  ticks,        \* sleeps of the idle wait
  inits         \* number of initialize messages read so far

vars == <<variant, initialized, pc, cur, n, calls, tool_name, arg, resp, buf,
          out, status, prev, signalled, ticks, inits>>

locals == <<tool_name, arg, resp>>

Init ==
  /\ variant \in Variants
  /\ initialized = FALSE
  /\ pc = "readline"
  /\ cur = NoLine
  /\ n = 0
  /\ calls = 0
  /\ tool_name = Absent
  /\ arg = Absent
  /\ resp = NoResp
  /\ buf = <<>>
  /\ out = <<>>
  /\ status = "none"
  /\ prev = "none"
  /\ signalled = FALSE
  /\ ticks = 0
  /\ inits = 0


\* ------------------------------------------------------------ line reader
\* line = sys.stdin.readline() returned a line; a line that is empty after
\* strip() is skipped with continue
ReadLine ==
  /\ pc = "readline"
  /\ n < MaxLines
  /\ \E l \in Lines :
       /\ (l \in ShapeLines \/ calls > 0) => n < MaxShapeLines
       /\ cur' = l
       /\ calls' = IF l \in ShapeLines THEN calls + 1 ELSE calls
       /\ pc' = IF Strip(l.raw) = <<>> THEN "readline" ELSE "decode"
       /\ status' = IF Strip(l.raw) = <<>> THEN "blank" ELSE "reading"
       /\ inits' = IF l.kind = "object" /\ l.method = M("initialize")
                     THEN inits + 1
                     ELSE inits
  /\ n' = n + 1
  /\ prev' = status
  /\ tool_name' = Absent
  /\ arg' = Absent
  /\ resp' = NoResp
  /\ UNCHANGED <<variant, initialized, buf, out, signalled, ticks>>

\* mutant of ReadEOF: break at end-of-stream whatever the flag
ReadEOF_alwaysBreak ==
  /\ pc = "readline"
  /\ pc' = "done"
  /\ status' = "eof"
  /\ prev' = status
  /\ UNCHANGED <<variant, initialized, cur, n, calls, locals, buf, out, signalled, ticks, inits>>

\* readline() returned "": the idle wait once initialized, break otherwise
ReadEOF ==
  /\ pc = "readline"
  /\ pc' = IF initialized THEN "idle" ELSE "done"
  /\ status' = "eof"
  /\ prev' = status
  /\ UNCHANGED <<variant, initialized, cur, n, calls, locals, buf, out, signalled, ticks, inits>>

\* mutant of IdleSleep: after a sleep the loop tries stdin again
IdleSleep_rereads ==
  /\ pc = "idle"
  /\ ticks < MaxTicks
  /\ ticks' = ticks + 1
  /\ pc' = "readline"
  /\ UNCHANGED <<variant, initialized, cur, n, calls, locals, buf, out, status,
                 prev, signalled, inits>>

\* while True: time.sleep(1)
IdleSleep ==
  /\ pc = "idle"
  /\ ticks < MaxTicks
  /\ ticks' = ticks + 1
  /\ UNCHANGED <<variant, initialized, pc, cur, n, calls, locals, buf, out, status,
                 prev, signalled, inits>>

\* an exception that is neither JSONDecodeError nor BrokenPipeError leaves
\* the loop through the outer "except Exception"
Fatal ==
  /\ pc' = "done"
  /\ status' = "fatal"
  /\ UNCHANGED <<variant, initialized, cur, n, calls, locals, buf, out, prev,
                 signalled, ticks, inits>>

\* ------------------------------------------------------------------- codec
\* mutant of DecodeError: a line that does not decode ends the session
\* state: the flag is cleared
DecodeError_resetsFlag ==
  /\ pc = "decode"
  /\ cur.kind = "malformed"
  /\ pc' = "readline"
  /\ status' = "dropped"
  /\ initialized' = FALSE
  /\ UNCHANGED <<variant, cur, n, calls, locals, buf, out, prev, signalled, ticks, inits>>

\* mutant of DecodeError: break instead of continue
DecodeError_break ==
  /\ pc = "decode"
  /\ cur.kind = "malformed"
  /\ pc' = "done"
  /\ status' = "dropped"
  /\ UNCHANGED <<variant, initialized, cur, n, calls, locals, buf, out, prev,
                 signalled, ticks, inits>>

\* json.loads raises JSONDecodeError: logged, continue
DecodeError ==
  /\ pc = "decode"
  /\ cur.kind = "malformed"
  /\ pc' = "readline"
  /\ status' = "dropped"
  /\ UNCHANGED <<variant, initialized, cur, n, calls, locals, buf, out, prev,
                 signalled, ticks, inits>>

\* mutant of DecodeNonObject: the line is skipped like a malformed one
DecodeNonObject_skipped ==
  /\ pc = "decode"
  /\ cur.kind = "nonobject"
  /\ pc' = "readline"
  /\ status' = "dropped"
  /\ UNCHANGED <<variant, initialized, cur, n, calls, locals, buf, out, prev,
                 signalled, ticks, inits>>

\* json.loads returns a list, number, string, boolean or None: req.get
\* raises AttributeError
DecodeNonObject ==
  /\ pc = "decode"
  /\ cur.kind = "nonobject"
  /\ Fatal

\* print(json.dumps(response)): the line enters the stdout buffer
WriteResponse ==
  /\ pc = "print"
  /\ buf' = Append(buf, resp)
  /\ pc' = "flush"
  /\ UNCHANGED <<variant, initialized, cur, n, calls, locals, out, status, prev,
                 signalled, ticks, inits>>

\* mutant of FlushResponse: BrokenPipeError is logged and the loop continues
FlushResponse_continueOnPipe ==
  /\ pc = "flush"
  /\ \E ok \in BOOLEAN :
       IF ok
         THEN /\ out' = out \o buf
              /\ buf' = <<>>
              /\ pc' = IF cur.method = M("initialize") THEN "setinit" ELSE "readline"
              /\ status' = IF cur.method = M("initialize") THEN status ELSE "handled"
         ELSE /\ pc' = "readline"
              /\ status' = "pipe"
              /\ UNCHANGED <<buf, out>>
  /\ UNCHANGED <<variant, initialized, cur, n, calls, locals, prev, signalled, ticks, inits>>

\* mutant of FlushResponse: the flush after print is missing
FlushResponse_noFlush ==
  /\ pc = "flush"
  /\ pc' = IF cur.method = M("initialize") THEN "setinit" ELSE "readline"
  /\ status' = IF cur.method = M("initialize") THEN status ELSE "handled"
  /\ UNCHANGED <<variant, initialized, cur, n, calls, locals, buf, out, prev,
                 signalled, ticks, inits>>

\* sys.stdout.flush() after a response: the client receives the buffer, or
\* the pipe is closed and BrokenPipeError ends the loop
FlushResponse ==
  /\ pc = "flush"
  /\ \E ok \in BOOLEAN :
       IF ok
         THEN /\ out' = out \o buf
              /\ buf' = <<>>
              /\ pc' = IF cur.method = M("initialize") THEN "setinit" ELSE "readline"
              /\ status' = IF cur.method = M("initialize") THEN status ELSE "handled"
         ELSE /\ pc' = "done"
              /\ status' = "pipe"
              /\ UNCHANGED <<buf, out>>
  /\ UNCHANGED <<variant, initialized, cur, n, calls, locals, prev, signalled, ticks, inits>>


\* --------------------------------------------------------------- dispatcher
\* the result of initialize: protocolVersion, capabilities, serverInfo
InitResult(v) == <<"2024-11-05", "capabilities: {tools: {}}", ServerName(v), "1.0.0">>

\* mutant of Initialize: an initialize without id is ignored like the other
\* notifications
Initialize_idOnly ==
  /\ pc = "decode"
  /\ cur.kind = "object"
  /\ cur.method = M("initialize")
  /\ IF HasId(cur.id)
       THEN /\ resp' = ResultLine(n, cur.id, "initialize", InitResult(variant))
            /\ pc' = "print"
            /\ status' = status
       ELSE /\ resp' = resp
            /\ pc' = "readline"
            /\ status' = "handled"
  /\ UNCHANGED <<variant, initialized, cur, n, calls, tool_name, arg, buf, out,
                 prev, signalled, ticks, inits>>

\* method == "initialize": the response when the request has an id
Initialize ==
  /\ pc = "decode"
  /\ cur.kind = "object"
  /\ cur.method = M("initialize")
  /\ IF HasId(cur.id)
       THEN /\ resp' = ResultLine(n, cur.id, "initialize", InitResult(variant))
            /\ pc' = "print"
       ELSE /\ resp' = resp
            /\ pc' = "setinit"
  /\ UNCHANGED <<variant, initialized, cur, n, calls, tool_name, arg, buf, out,
                 status, prev, signalled, ticks, inits>>

\* mutant of SetInitialized: a repeated initialize toggles the flag
SetInitialized_toggle ==
  /\ pc = "setinit"
  /\ initialized' = ~initialized
  /\ pc' = "decl_print"
  /\ UNCHANGED <<variant, cur, n, calls, locals, buf, out, status, prev, signalled,
                 ticks, inits>>

\* mutant of SetInitialized: initialized = req_id is not None
SetInitialized_byId ==
  /\ pc = "setinit"
  /\ initialized' = HasId(cur.id)
  /\ pc' = "decl_print"
  /\ UNCHANGED <<variant, cur, n, calls, locals, buf, out, status, prev, signalled,
                 ticks, inits>>

\* initialized = True
SetInitialized ==
  /\ pc = "setinit"
  /\ initialized' = TRUE
  /\ pc' = "decl_print"
  /\ UNCHANGED <<variant, cur, n, calls, locals, buf, out, status, prev, signalled,
                 ticks, inits>>

\* mutant of DeclWrite: the declaration is only sent the first time
DeclWrite_once ==
  /\ pc = "decl_print"
  /\ buf' = IF \E i \in DOMAIN out : out[i].tag = "tools/declare"
              THEN buf
              ELSE Append(buf, Declaration(n, variant))
  /\ pc' = "decl_flush"
  /\ UNCHANGED <<variant, initialized, cur, n, calls, locals, out, status, prev,
                 signalled, ticks, inits>>

\* send_tool_declaration(): print(json.dumps(tool_declaration))
DeclWrite ==
  /\ pc = "decl_print"
  /\ buf' = Append(buf, Declaration(n, variant))
  /\ pc' = "decl_flush"
  /\ UNCHANGED <<variant, initialized, cur, n, calls, locals, out, status, prev,
                 signalled, ticks, inits>>

\* mutant of DeclFlush: the declaration is left in the stdout buffer
DeclFlush_noFlush ==
  /\ pc = "decl_flush"
  /\ pc' = "readline"
  /\ status' = "handled"
  /\ UNCHANGED <<variant, initialized, cur, n, calls, locals, buf, out, prev,
                 signalled, ticks, inits>>

\* send_tool_declaration(): sys.stdout.flush()
DeclFlush ==
  /\ pc = "decl_flush"
  /\ \E ok \in BOOLEAN :
       IF ok
         THEN /\ out' = out \o buf
              /\ buf' = <<>>
              /\ pc' = "readline"
              /\ status' = "handled"
         ELSE /\ pc' = "done"
              /\ status' = "pipe"
              /\ UNCHANGED <<buf, out>>
  /\ UNCHANGED <<variant, initialized, cur, n, calls, locals, prev, signalled, ticks, inits>>

\* mutant of ToolsList: the listing is refused before the handshake
ToolsList_afterInit ==
  /\ pc = "decode"
  /\ cur.kind = "object"
  /\ cur.method = M("tools/list")
  /\ HasToolsList(variant)
  /\ IF HasId(cur.id)
       THEN /\ resp' = IF initialized
                         THEN ResultLine(n, cur.id, "tools/list", ListedTools(variant))
                         ELSE ErrorLine(n, cur.id, 0 - 32002, <<"Server not initialized">>)
            /\ pc' = "print"
            /\ status' = status
       ELSE /\ resp' = resp
            /\ pc' = "readline"
            /\ status' = "handled"
  /\ UNCHANGED <<variant, initialized, cur, n, calls, tool_name, arg, buf, out, prev,
                 signalled, ticks, inits>>

\* method == "tools/list" (xjg_backup has no such branch)
ToolsList ==
  /\ pc = "decode"
  /\ cur.kind = "object"
  /\ cur.method = M("tools/list")
  /\ HasToolsList(variant)
  /\ IF HasId(cur.id)
       THEN /\ resp' = ResultLine(n, cur.id, "tools/list", ListedTools(variant))
            /\ pc' = "print"
            /\ status' = status
       ELSE /\ resp' = resp
            /\ pc' = "readline"
            /\ status' = "handled"
  /\ UNCHANGED <<variant, initialized, cur, n, calls, tool_name, arg, buf, out, prev,
                 signalled, ticks, inits>>

\* req.get("params", {}) is a mapping
ParamsIsMapping(req) == req.params \in {"absent", "obj"}

\* req.get("params", {}).get("name")
ToolName(req) == IF req.params = "obj" THEN Get(req.name, JNull) ELSE JNull

\* mutant of ToolsCall: the branch has no "req_id is not None" guard
ToolsCall_noIdGuard ==
  /\ pc = "decode"
  /\ cur.kind = "object"
  /\ cur.method = M("tools/call")
  /\ IF ~ParamsIsMapping(cur)
       THEN Fatal
       ELSE /\ tool_name' = ToolName(cur)
            /\ pc' = "call"
            /\ UNCHANGED <<variant, initialized, cur, n, calls, arg, resp, buf, out,
                           status, prev, signalled, ticks, inits>>

\* method == "tools/call": nothing is evaluated without an id; with one,
\* tool_name is read from params
ToolsCall ==
  /\ pc = "decode"
  /\ cur.kind = "object"
  /\ cur.method = M("tools/call")
  /\ IF ~HasId(cur.id)
       THEN /\ pc' = "readline"
            /\ status' = "handled"
            /\ UNCHANGED <<variant, initialized, cur, n, calls, locals, buf, out, prev,
                           signalled, ticks, inits>>
       ELSE IF ~ParamsIsMapping(cur)
         THEN Fatal
         ELSE /\ tool_name' = ToolName(cur)
              /\ pc' = "call"
              /\ UNCHANGED <<variant, initialized, cur, n, calls, arg, resp, buf, out,
                             status, prev, signalled, ticks, inits>>

\* the methods the variant has a branch for
KnownMethods(v) ==
  {M("initialize"), M("tools/call")}
    \cup (IF HasToolsList(v) THEN {M("tools/list")} ELSE {})

\* mutant of UnknownMethod: the request is rejected as invalid (-32600)
UnknownMethod_invalidRequest ==
  /\ pc = "decode"
  /\ cur.kind = "object"
  /\ cur.method \notin KnownMethods(variant)
  /\ IF HasId(cur.id)
       THEN /\ resp' = ErrorLine(n, cur.id, 0 - 32600, <<"Invalid request">>)
            /\ pc' = "print"
            /\ status' = status
       ELSE /\ resp' = resp
            /\ pc' = "readline"
            /\ status' = "handled"
  /\ UNCHANGED <<variant, initialized, cur, n, calls, tool_name, arg, buf, out, prev,
                 signalled, ticks, inits>>

\* else: error -32601 when the request has an id, ignored otherwise
UnknownMethod ==
  /\ pc = "decode"
  /\ cur.kind = "object"
  /\ cur.method \notin KnownMethods(variant)
  /\ IF HasId(cur.id)
       THEN /\ resp' = ErrorLine(n, cur.id, MethodNotFound,
                                 <<"Unknown method: ">> \o Fmt(cur.method))
            /\ pc' = "print"
            /\ status' = status
       ELSE /\ resp' = resp
            /\ pc' = "readline"
            /\ status' = "handled"
  /\ UNCHANGED <<variant, initialized, cur, n, calls, tool_name, arg, buf, out, prev,
                 signalled, ticks, inits>>


\* ------------------------------------------------------------ tool handlers
\* req.get("params", {}).get("arguments", {}) is a mapping
ArgumentsIsMapping(req) == req.params = "absent" \/ req.arguments \in {"absent", "obj"}

\* mutant of ArgOf: .get(key) without a default
ArgOf_noDefault(req, default) ==
  IF req.params = "obj" /\ req.arguments = "obj" THEN Get(req.arg, JNull) ELSE JNull

\* req.get("params", {}).get("arguments", {}).get(key, default)
ArgOf(req, default) ==
  IF req.params = "obj" /\ req.arguments = "obj" THEN Get(req.arg, default) ELSE default

ContentLine(tx) == ResultLine(n, cur.id, "content", tx)

\* the handler built its response and reaches print at the end of the branch
Respond(r) ==
  /\ resp' = r
  /\ pc' = "print"
  /\ UNCHANGED <<variant, initialized, cur, n, calls, tool_name, arg, buf, out,
                 status, prev, signalled, ticks, inits>>

\* tool_name == "echo"
Echo ==
  /\ pc = "call"
  /\ tool_name = M("echo")
  /\ IF ~ArgumentsIsMapping(cur)
       THEN Fatal
       ELSE Respond(ContentLine(<<"Echo: ">> \o Fmt(ArgOf(cur, JStr(<<>>)))))

\* text[::-1] interpolated after "Reversed: "
ReversedText(text) == IF text.t = "str" THEN ReverseSeq(text.s) ELSE Fmt(text)

\* tool_name == "reverse": text[::-1] raises TypeError unless text is a
\* str or a list
ReverseTool ==
  /\ pc = "call"
  /\ tool_name = M("reverse")
  /\ "reverse" \in Tools(variant)
  /\ IF ~ArgumentsIsMapping(cur) \/ ArgOf(cur, JStr(<<>>)).t \notin {"str", "list"}
       THEN Fatal
       ELSE Respond(ContentLine(<<"Reversed: ">> \o ReversedText(ArgOf(cur, JStr(<<>>)))))

\* the four counts of the word_count report
WordCount(cs) ==
  [words |-> IF Strip(cs) # <<>> THEN SplitCount(cs) ELSE 0,
   chars |-> Len(cs),
   chars_no_spaces |-> NoSpaceCount(cs),
   lines |-> IF cs # <<>> THEN SplitLinesCount(cs) ELSE 0]

WordCountText(cs) ==
  <<"Text Analysis:", "Words: ", ToString(WordCount(cs).words),
    "Characters: ", ToString(WordCount(cs).chars),
    "Characters (no spaces): ", ToString(WordCount(cs).chars_no_spaces),
    "Lines: ", ToString(WordCount(cs).lines)>>

\* tool_name == "word_count": text.strip() raises AttributeError unless
\* text is a str
WordCountTool ==
  /\ pc = "call"
  /\ tool_name = M("word_count")
  /\ "word_count" \in Tools(variant)
  /\ IF ~ArgumentsIsMapping(cur) \/ ArgOf(cur, JStr(<<>>)).t # "str"
       THEN Fatal
       ELSE Respond(ContentLine(WordCountText(ArgOf(cur, JStr(<<>>)).s)))

\* xavier.py: a falsy or blank city_arg gives the default city, otherwise
\* city_arg.strip(); xjg.py: .get("city", "Frisco, Colorado") as it is
City(v, req) ==
  IF v = "xavier"
    THEN IF ~Truthy(ArgOf(req, JNull)) \/ Strip(ArgOf(req, JNull).s) = <<>>
           THEN JStr(T_frisco)
           ELSE JStr(Strip(ArgOf(req, JNull).s))
    ELSE ArgOf(req, JStr(T_frisco))

\* xavier.py: city_arg.strip() on a truthy value that is not a str raises
\* AttributeError before the try block
CityRaises(v, req) ==
  v = "xavier" /\ Truthy(ArgOf(req, JNull)) /\ ArgOf(req, JNull).t # "str"

\* tool_name == "weather": the city is chosen, then the try block is entered
WeatherArgs ==
  /\ pc = "call"
  /\ tool_name = M("weather")
  /\ "weather" \in Tools(variant)
  /\ IF ~ArgumentsIsMapping(cur) \/ CityRaises(variant, cur)
       THEN Fatal
       ELSE /\ arg' = City(variant, cur)
            /\ pc' = "fetch"
            /\ UNCHANGED <<variant, initialized, cur, n, calls, tool_name, resp, buf,
                           out, status, prev, signalled, ticks, inits>>

\* what the try block of the weather handler can end in
FetchOutcomes == {"ok", "status", "URLError", "JSONDecodeError", "KeyError", "Exception"}

\* urllib.parse.quote(city) raises TypeError inside the try block when city
\* is not a str (xjg.py only: xavier.py always has a str here)
FetchOutcomesFor(city) == IF city.t = "str" THEN FetchOutcomes ELSE {"Exception"}

\* weather_info: xjg.py names the city only in the two texts of the
\* with block, xavier.py in every text
WeatherText(v, o, city) ==
  IF v = "xavier" \/ o \in {"ok", "status"}
    THEN <<"weather:" \o o>> \o Fmt(city)
    ELSE IF o = "URLError"
      THEN <<"Network error getting weather">>
      ELSE <<"Error processing weather data">>

\* the try block of the weather handler: fetch, parse, format; every
\* Exception becomes a text
WeatherFetch ==
  /\ pc = "fetch"
  /\ \E o \in FetchOutcomesFor(arg) :
       Respond(ContentLine(WeatherText(variant, o, arg)))

\* availability: the day label followed by the fixed table
AvailabilityText(label) == <<"Availability for ">> \o label \o <<"TABLE">>

\* datetime.date.today() and the day after, as day labels
LabelToday == <<"date.today()">>
LabelTomorrow == <<"date.today()+1">>

\* tool_name == "get_availability" (xavier.py): date_arg.lower() raises
\* AttributeError unless date_arg is a str; "today" and "tomorrow" are
\* answered at once, anything else enters the try block around strptime
AvailabilityArgs ==
  /\ pc = "call"
  /\ tool_name = M("get_availability")
  /\ "get_availability" \in Tools(variant)
  /\ IF ~ArgumentsIsMapping(cur) \/ ArgOf(cur, JStr(T_today)).t # "str"
       THEN Fatal
       ELSE IF Lower(ArgOf(cur, JStr(T_today)).s) = T_today
         THEN Respond(ContentLine(AvailabilityText(LabelToday)))
         ELSE IF Lower(ArgOf(cur, JStr(T_today)).s) = T_tomorrow
           THEN Respond(ContentLine(AvailabilityText(LabelTomorrow)))
           ELSE /\ arg' = ArgOf(cur, JStr(T_today))
                /\ pc' = "strptime"
                /\ UNCHANGED <<variant, initialized, cur, n, calls, tool_name, resp,
                               buf, out, status, prev, signalled, ticks, inits>>

\* mutant of Strptime: a date that does not parse is rejected
Strptime_rejects ==
  /\ pc = "strptime"
  /\ Respond(IF ParsesAsDate(arg.s)
               THEN ContentLine(AvailabilityText(arg.s))
               ELSE ErrorLine(n, cur.id, 0 - 32602, <<"Invalid date">>))

\* try: strptime(date_arg, "%Y-%m-%d")  except: today
Strptime ==
  /\ pc = "strptime"
  /\ Respond(ContentLine(AvailabilityText(
       IF ParsesAsDate(arg.s) THEN arg.s ELSE LabelToday)))

\* mutant of UnknownTool: the unknown tool is reported as a text result,
\* the way a handler reports its own faults
UnknownTool_asResult ==
  /\ pc = "call"
  /\ tool_name \notin {M(t) : t \in Tools(variant)}
  /\ Respond(ContentLine(<<"Unknown tool: ">> \o Fmt(tool_name)))

\* else: error -32601 "Unknown tool: {tool_name}"
UnknownTool ==
  /\ pc = "call"
  /\ tool_name \notin {M(t) : t \in Tools(variant)}
  /\ Respond(ErrorLine(n, cur.id, MethodNotFound, <<"Unknown tool: ">> \o Fmt(tool_name)))

\* ------------------------------------------------------ shutdown controller
\* SIGTERM or SIGINT: signal_handler raises SystemExit in the main thread.
\* Inside the try block around strptime the bare "except:" catches it and
\* the handler goes on with today's date; everywhere else the process
\* exits, and the interpreter flushes what print left in the stdout buffer
\* unless the pipe is closed; the locals of the loop are gone with it.
Signal ==
  /\ pc \notin {"done", "exited"}
  /\ signalled' = TRUE
  /\ IF pc = "strptime"
       THEN /\ resp' = ContentLine(AvailabilityText(LabelToday))
            /\ pc' = "print"
            /\ UNCHANGED <<buf, out, status>>
       ELSE /\ pc' = "exited"
            /\ status' = IF status = "reading" THEN "signal" ELSE status
            /\ resp' = NoResp
            /\ buf' = <<>>
            /\ \E ok \in BOOLEAN : out' = IF ok THEN out \o buf ELSE out
  /\ tool_name' = IF pc = "strptime" THEN tool_name ELSE Absent
  /\ arg' = IF pc = "strptime" THEN arg ELSE Absent
  /\ UNCHANGED <<variant, initialized, cur, n, calls, prev, ticks, inits>>

Next ==
  \/ ReadLine
  \/ ReadEOF
  \/ IdleSleep
  \/ DecodeError
  \/ DecodeNonObject
  \/ Initialize
  \/ SetInitialized
  \/ DeclWrite
  \/ DeclFlush
  \/ ToolsList
  \/ ToolsCall
  \/ UnknownMethod
  \/ Echo
  \/ ReverseTool
  \/ WordCountTool
  \/ WeatherArgs
  \/ WeatherFetch
  \/ AvailabilityArgs
  \/ Strptime
  \/ UnknownTool
  \/ WriteResponse
  \/ FlushResponse
  \/ Signal

Spec == Init /\ [][Next]_vars


\* ------------------------------------------------------------- properties
\* what has been written to standard output, flushed or not
Written == out \o buf

\* the lines written while input line k was handled
WrittenFor(k) == SelectSeq(Written, LAMBDA o : o.src = k)

IsDeclaration(o) == o.kind = "notification" /\ o.tag = "tools/declare"

IsResponse(o) == o.kind = "response"

Declarations(q) == SelectSeq(q, IsDeclaration)

Responses(q) == SelectSeq(q, IsResponse)

\* the request carries an id that is not null
IdPresent(l) == l.id # Absent /\ l.id # JNull

IsRequest(l, m) == l.kind = "object" /\ l.method = M(m)

\* C1: every object line with a non-null id gets exactly one response line,
\* carrying the request's id, once its handling has ended without an output
\* fault or a signal - whatever the method and the shape of params.
C1_OneResponsePerRequest ==
  (cur.kind = "object" /\ IdPresent(cur) /\ status \in {"handled", "fatal"})
    => /\ Len(Responses(WrittenFor(n))) = 1
       /\ Responses(WrittenFor(n))[1].id = cur.id

\* C2: a message whose id is null or absent never gets a response line; an
\* initialize without id produces only id-less tools/declare notifications,
\* every other id-less message produces no output at all.
C2_NoResponseWithoutId ==
  (cur.kind # "none" /\ ~IdPresent(cur))
    => /\ \A i \in DOMAIN WrittenFor(n) :
            /\ IsDeclaration(WrittenFor(n)[i])
            /\ WrittenFor(n)[i].id = Absent
            /\ WrittenFor(n)[i].body = "none"
       /\ ~IsRequest(cur, "initialize") => WrittenFor(n) = <<>>
       /\ resp = NoResp

C2_Witness ==
  /\ status = "handled"
  /\ IsRequest(cur, "initialize")
  /\ cur.id = JNull
  /\ Len(WrittenFor(n)) = 1
  /\ IsDeclaration(out[Len(out)])

\* C3: once an initialize message, with or without id, has been handled, the
\* flag is true and exactly one tools/declare was emitted for that message.
C3_InitializeSetsFlagAndDeclares ==
  (IsRequest(cur, "initialize") /\ status = "handled")
    => /\ initialized
       /\ Len(Declarations(SelectSeq(out, LAMBDA o : o.src = n))) = 1

C3_Witness ==
  /\ IsRequest(cur, "initialize")
  /\ cur.id = Absent
  /\ status = "handled"
  /\ initialized
  /\ Len(Declarations(out)) = 1

\* C4 as stated: the output never contains more than one tools/declare line.
C4_AtMostOneDeclaration == Len(Declarations(Written)) <= 1

\* C4 amended: tools/declare is sent once per initialize message, right after
\* that message's handshake: whenever the server is back at readline the
\* client has received as many tools/declare lines as initialize messages
\* were read, no two of them for the same message, and never more were
\* written than initialize messages were read.
C4_OneDeclarationPerInitialize ==
  /\ Len(Declarations(Written)) <= inits
  /\ pc = "readline" => Len(Declarations(out)) = inits
  /\ \A i, j \in DOMAIN Written :
       (IsDeclaration(Written[i]) /\ IsDeclaration(Written[j])
          /\ Written[i].src = Written[j].src) => i = j

C4_Witness ==
  /\ pc = "readline"
  /\ inits = 2
  /\ Len(Declarations(out)) = 2

\* C5: when the tools/declare notification of an initialize request with an
\* id is written, the flag is true and the initialize response is already
\* flushed, as the last line the client received; in the output the response
\* is the line right before the notification.
C5_ResponseBeforeDeclaration ==
  /\ pc \in {"decl_print", "decl_flush"}
       => /\ initialized
          /\ IdPresent(cur)
               => /\ out # <<>>
                  /\ out[Len(out)].src = n
                  /\ out[Len(out)].tag = "initialize"
                  /\ out[Len(out)].id = cur.id
          /\ pc = "decl_print" => buf = <<>>
  /\ \A i, j \in DOMAIN Written :
       (IsDeclaration(Written[i]) /\ i # j /\ Written[j].src = Written[i].src)
         => (j = i - 1 /\ IsResponse(Written[j]) /\ Written[j].tag = "initialize")

C5_Witness ==
  /\ IsRequest(cur, "initialize")
  /\ IdPresent(cur)
  /\ status = "handled"
  /\ Len(out) >= 2
  /\ IsDeclaration(out[Len(out)])
  /\ out[Len(out) - 1].tag = "initialize"
  /\ out[Len(out) - 1].id = cur.id

\* C6: the flag starts false and no step of the program, whatever the
\* input, the faults and the signals, takes it from true to false.
C6_FlagMonotone == (~initialized) /\ [][initialized => initialized']_vars

C6_Witness ==
  /\ initialized
  /\ n = 2
  /\ status = "dropped"
  /\ signalled
  /\ pc = "exited"

\* C7: end-of-stream ends the loop when the flag is false and enters the
\* idle wait when it is true; the idle wait is left only by a signal, and
\* then the process has exited.
C7_EndOfStream ==
  [][ /\ (pc = "readline" /\ status' = "eof")
         => pc' = IF initialized THEN "idle" ELSE "done"
      /\ pc = "idle" => (pc' = "idle" \/ (pc' = "exited" /\ signalled'))
      /\ pc \in {"done", "exited"} => pc' = pc ]_vars

C7_Witness ==
  /\ status = "eof"
  /\ initialized
  /\ pc = "exited"
  /\ signalled
  /\ ticks > 0

\* C8: once the signal handler has run, the process has terminated, at
\* whatever point of the main loop the signal arrived.
C8_SignalTerminates == signalled => pc = "exited"

\* C9: a malformed line is dropped: reading it and failing to decode it
\* leave the flag and the output as they were and, unless a signal makes
\* the process exit, bring the loop back to readline, so that the next line
\* meets the state it would have met.
C9_MalformedDropped ==
  [][ /\ (pc = "readline" /\ n' = n + 1 /\ cur'.kind = "malformed")
         => (pc' = "decode" /\ UNCHANGED <<initialized, out, buf>>)
      /\ (pc = "decode" /\ cur.kind = "malformed" /\ pc' # "exited")
         => (pc' = "readline" /\ status' = "dropped"
               /\ UNCHANGED <<initialized, out, buf>>) ]_vars

C9_Witness ==
  /\ prev = "dropped"
  /\ status = "handled"
  /\ n = 2
  /\ Len(Responses(out)) = 1
  /\ out[1].src = 2

\* the tool name of a tools/call request whose params are a mapping (or
\* missing): None when there is no name
NameOf(l) == IF l.params = "obj" /\ l.name # Absent THEN l.name ELSE JNull

\* C10: a tools/call request with a non-null id whose params.name is not a
\* registered tool, a missing name included, is answered by exactly one
\* line, an error response with code -32601 and message "Unknown tool:
\* {name}" and no result, and the loop is back at readline afterwards.
C10_UnknownToolError ==
  (/\ IsRequest(cur, "tools/call")
   /\ IdPresent(cur)
   /\ cur.params \in {"absent", "obj"}
   /\ NameOf(cur) \notin {M(ToolSeq(variant)[i]) : i \in DOMAIN ToolSeq(variant)})
    => /\ status # "fatal"
       /\ status = "handled"
            => /\ pc \in {"readline", "exited"}
               /\ Len(WrittenFor(n)) = 1
               /\ WrittenFor(n)[1].kind = "response"
               /\ WrittenFor(n)[1].id = cur.id
               /\ WrittenFor(n)[1].body = "error"
               /\ WrittenFor(n)[1].code = 0 - 32601
               /\ WrittenFor(n)[1].text = <<"Unknown tool: ">> \o Fmt(NameOf(cur))

C10_Witness ==
  /\ IsRequest(cur, "tools/call")
  /\ cur.id = JInt(0)
  /\ cur.params = "obj"
  /\ cur.name = Absent
  /\ status = "handled"
  /\ pc = "readline"
  /\ out # <<>>
  /\ out[Len(out)].text = <<"Unknown tool: ", "None">>

\* the three methods the protocol recognizes
RecognizedMethods == {M("initialize"), M("tools/list"), M("tools/call")}

IsUnrecognized(l) == l.kind = "object" /\ l.method \notin RecognizedMethods

\* C11: a message whose method is none of initialize, tools/list, tools/call
\* (a missing method included) never ends the loop by a fault and enters no
\* branch but the unknown-method one; without an id it writes nothing; with
\* an id, once handled, exactly one line was written for it, an error
\* response with the request's id, code -32601 and message "Unknown method:
\* {method}", and the loop is back at readline; no step taken while it is
\* the current line changes the flag.
C11_UnknownMethodError ==
  /\ [](IsUnrecognized(cur)
          => /\ status # "fatal"
             /\ pc \notin {"setinit", "decl_print", "decl_flush", "call", "fetch",
                           "strptime"}
             /\ ~IdPresent(cur) => (WrittenFor(n) = <<>> /\ resp = NoResp)
             /\ status = "handled"
                  => /\ pc \in {"readline", "exited"}
                     /\ IdPresent(cur)
                          => /\ Len(WrittenFor(n)) = 1
                             /\ WrittenFor(n)[1].kind = "response"
                             /\ WrittenFor(n)[1].id = cur.id
                             /\ WrittenFor(n)[1].body = "error"
                             /\ WrittenFor(n)[1].code = 0 - 32601
                             /\ WrittenFor(n)[1].text
                                  = <<"Unknown method: ">> \o Fmt(cur.method))
  /\ [][(IsUnrecognized(cur) /\ cur' = cur) => initialized' = initialized]_vars

C11_Witness ==
  /\ n = 2
  /\ initialized
  /\ cur.kind = "object"
  /\ cur.method = Absent
  /\ cur.id = JInt(0)
  /\ status = "handled"
  /\ pc = "readline"
  /\ Len(out) = 2
  /\ out[2].src = 2
  /\ out[2].code = 0 - 32601
  /\ out[2].text = <<"Unknown method: ", "None">>

\* C12: in every source variant, once a tools/list request with a non-null
\* id has been handled, exactly one line was written for it: a response with
\* the request's id whose result lists the tool descriptors of the registry
\* in order.
C12_ToolsListAnswered ==
  (IsRequest(cur, "tools/list") /\ IdPresent(cur) /\ status = "handled")
    => /\ Len(WrittenFor(n)) = 1
       /\ WrittenFor(n)[1].kind = "response"
       /\ WrittenFor(n)[1].id = cur.id
       /\ WrittenFor(n)[1].body = "result"
       /\ WrittenFor(n)[1].tag = "tools/list"
       /\ [i \in DOMAIN WrittenFor(n)[1].text |-> WrittenFor(n)[1].text[i].name]
            = ToolSeq(variant)

\* the names of a sequence of registry entries
EntryNames(q) == {q[i].name : i \in DOMAIN q}

\* C13: a tools/declare payload and a tools/list result written in the same
\* session carry the same set of tool names, and each name has the same
\* description and the same schema in both; a tools/call request with an id
\* whose params.name is read is answered "Unknown tool" exactly when the
\* name is not among the declared names, and only a declared name's handler
\* can end the loop by a fault.
C13_SameRegistry ==
  /\ \A i, j \in DOMAIN Written :
       (IsDeclaration(Written[i]) /\ IsResponse(Written[j])
          /\ Written[j].body = "result" /\ Written[j].tag = "tools/list")
         => /\ EntryNames(Written[i].text) = EntryNames(Written[j].text)
            /\ \A a \in DOMAIN Written[i].text, b \in DOMAIN Written[j].text :
                 Written[i].text[a].name = Written[j].text[b].name
                   => /\ Written[i].text[a].description = Written[j].text[b].description
                      /\ Written[i].text[a].input_schema = Written[j].text[b].inputSchema
  /\ (IsRequest(cur, "tools/call") /\ IdPresent(cur) /\ cur.params \in {"absent", "obj"})
       => /\ status = "handled"
               => /\ Len(WrittenFor(n)) = 1
                  /\ (WrittenFor(n)[1].body = "error"
                        /\ Head(WrittenFor(n)[1].text) = "Unknown tool: ")
                       <=> NameOf(cur) \notin {M(x) : x \in EntryNames(DeclaredTools(variant))}
          /\ status = "fatal"
               => NameOf(cur) \in {M(x) : x \in EntryNames(DeclaredTools(variant))}

C13_Witness ==
  /\ variant = "xavier"
  /\ status = "handled"
  /\ IsRequest(cur, "tools/list")
  /\ Len(out) = 2
  /\ IsDeclaration(out[1])
  /\ Len(out[1].text) = 5
  /\ out[2].tag = "tools/list"
  /\ Len(out[2].text) = 5

\* the request names a tool and its params are a mapping
NamesTool(l, t) == IsRequest(l, "tools/call") /\ l.params = "obj" /\ l.name = M(t)

\* C14 as stated: once a tools/call message without an id that names the
\* weather tool has been handled, the handler was entered: the tool name
\* was read from params and the city was chosen for the fetch.
C14_NotificationCallExecutes ==
  (NamesTool(cur, "weather") /\ ~IdPresent(cur) /\ status = "handled"
     /\ variant # "xjg_backup")
    => (tool_name = M("weather") /\ arg # Absent)

\* C14 amended: a tools/call message without an id executes nothing: the
\* tool name is not read, no handler and no fetch is entered, nothing is
\* built or written for it, whatever its params are, and it never ends the
\* loop by a fault; no handler position is ever reached without an id.
C14_NotificationCallIsNoOp ==
  /\ pc \in {"call", "fetch", "strptime"} => IdPresent(cur)
  /\ (IsRequest(cur, "tools/call") /\ ~IdPresent(cur))
       => /\ pc \notin {"call", "fetch", "strptime", "print", "flush"}
          /\ tool_name = Absent
          /\ arg = Absent
          /\ resp = NoResp
          /\ WrittenFor(n) = <<>>
          /\ status # "fatal"

C14_Witness ==
  /\ NamesTool(cur, "weather")
  /\ cur.id = JNull
  /\ variant = "xavier"
  /\ status = "handled"
  /\ pc = "readline"
  /\ n = 2
  /\ Len(out) = 1
  /\ out[1].src = 1

\* C15: a tools/call request with a non-null id that names a registered
\* tool never ends the loop by a fault, whatever its arguments, and once
\* handled it was answered by exactly one line, a result with text content.
C15_RegisteredToolAlwaysResult ==
  (IdPresent(cur) /\ \E i \in DOMAIN ToolSeq(variant) : NamesTool(cur, ToolSeq(variant)[i]))
    => /\ status # "fatal"
       /\ status = "handled"
            => /\ Len(WrittenFor(n)) = 1
               /\ WrittenFor(n)[1].body = "result"
               /\ WrittenFor(n)[1].tag = "content"

\* C16: the reverse tool's transformation is an involution: applying it to
\* the text the tool answered gives back the text of the request, for the
\* empty text, texts with repeated characters and texts with characters of
\* several bytes.
C16_ReverseInvolution ==
  (NamesTool(cur, "reverse") /\ IdPresent(cur) /\ cur.arguments = "obj"
     /\ cur.arg.t = "str" /\ resp.body = "result")
    => /\ Head(resp.text) = "Reversed: "
       /\ Len(resp.text) = 1 + Len(cur.arg.s)
       /\ ReverseSeq(Tail(resp.text)) = cur.arg.s

C16_Witness ==
  /\ NamesTool(cur, "reverse")
  /\ cur.arg = JStr(T_utf)
  /\ status = "handled"
  /\ Len(out) = 1
  /\ out[1].text = <<"Reversed: ", "z", "U+1F600", "U+00E9">>

\* the request is a word_count call with an id on the text cs
CountsText(l, cs) ==
  NamesTool(l, "word_count") /\ IdPresent(l) /\ l.arguments = "obj" /\ l.arg = JStr(cs)

\* C17 as stated: word_count answers words 0, characters 0, lines 0 on the
\* empty text and words 3, characters 6, characters without spaces 4 on
\* "a b  c".
C17_WordCountLiterals ==
  /\ (CountsText(cur, <<>>) /\ resp.body = "result")
       => (resp.text[3] = "0" /\ resp.text[5] = "0" /\ resp.text[9] = "0")
  /\ (CountsText(cur, <<"a", " ", "b", " ", " ", "c">>) /\ resp.body = "result")
       => (resp.text[3] = "3" /\ resp.text[5] = "6" /\ resp.text[7] = "4")

\* C17 amended: word_count answers words 0, characters 0, lines 0 on the
\* empty text and words 3, characters 6, characters without spaces 3 on
\* "a b  c" (six characters, three of them spaces).
C17_WordCountCounts ==
  /\ (CountsText(cur, <<>>) /\ resp.body = "result")
       => (resp.text[3] = "0" /\ resp.text[5] = "0" /\ resp.text[9] = "0")
  /\ (CountsText(cur, <<"a", " ", "b", " ", " ", "c">>) /\ resp.body = "result")
       => (resp.text[3] = "3" /\ resp.text[5] = "6" /\ resp.text[7] = "3")

C17_Witness ==
  /\ CountsText(cur, <<"a", " ", "b", " ", " ", "c">>)
  /\ status = "handled"
  /\ Len(out) = 1
  /\ out[1].text = <<"Text Analysis:", "Words: ", "3", "Characters: ", "6",
                     "Characters (no spaces): ", "3", "Lines: ", "1">>

\* the two shapes of an output line
IsResponseShape(o) ==
  /\ "id" \in o.keys
  /\ "method" \notin o.keys
  /\ Cardinality(o.keys \cap {"result", "error"}) = 1
  /\ o.id \notin {Absent, JNull}
  /\ o.kind = "response"
  /\ o.body = "result" <=> "result" \in o.keys
  /\ o.body = "error" <=> "error" \in o.keys

IsDeclareShape(o) ==
  /\ o.keys = {"jsonrpc", "method", "params"}
  /\ o.kind = "notification"
  /\ o.tag = "tools/declare"
  /\ o.id = Absent

\* C18: every line written to standard output, flushed or not, is either a
\* response that carries a non-null id and exactly one of result and error,
\* or the notification tools/declare without id, result and error.
C18_OutputShapes ==
  \A i \in DOMAIN Written : IsResponseShape(Written[i]) \/ IsDeclareShape(Written[i])

C18_Witness ==
  /\ Len(out) = 3
  /\ out[1].body = "result"
  /\ IsDeclaration(out[2])
  /\ out[3].body = "error"
  /\ pc = "readline"

\* the requests with an id whose handling raises an exception that ends the
\* loop
Crashes(v, l) ==
  /\ IsRequest(l, "tools/call")
  /\ IdPresent(l)
  /\ \/ ~ParamsIsMapping(l)
     \/ /\ ToolName(l) \in {M(t) : t \in Tools(v)}
        /\ \/ ~ArgumentsIsMapping(l)
           \/ ToolName(l) = M("reverse") /\ ArgOf(l, JStr(<<>>)).t \notin {"str", "list"}
           \/ ToolName(l) = M("word_count") /\ ArgOf(l, JStr(<<>>)).t # "str"
           \/ ToolName(l) = M("weather") /\ CityRaises(v, l)
           \/ ToolName(l) = M("get_availability") /\ ArgOf(l, JStr(T_today)).t # "str"

\* the texts a registered tool can answer the request l with: one text,
\* but for the outcomes of the weather fetch and for a date that a signal
\* during strptime turns into today
ToolTexts(v, l) ==
  CASE ToolName(l) = M("echo") -> {<<"Echo: ">> \o Fmt(ArgOf(l, JStr(<<>>)))}
    [] ToolName(l) = M("reverse") -> {<<"Reversed: ">> \o ReversedText(ArgOf(l, JStr(<<>>)))}
    [] ToolName(l) = M("word_count") -> {WordCountText(ArgOf(l, JStr(<<>>)).s)}
    [] ToolName(l) = M("weather") ->
         {WeatherText(v, o, City(v, l)) : o \in FetchOutcomesFor(City(v, l))}
    [] OTHER ->
         IF Lower(ArgOf(l, JStr(T_today)).s) = T_today
           THEN {AvailabilityText(LabelToday)}
           ELSE IF Lower(ArgOf(l, JStr(T_today)).s) = T_tomorrow
             THEN {AvailabilityText(LabelTomorrow)}
             ELSE IF ParsesAsDate(ArgOf(l, JStr(T_today)).s)
               THEN {AvailabilityText(ArgOf(l, JStr(T_today)).s),
                     AvailabilityText(LabelToday)}
               ELSE {AvailabilityText(LabelToday)}

\* the response lines the request l with an id, read as line k, can get in
\* variant v: a function of the variant and the request alone
Answers(v, l, k) ==
  CASE l.method = M("initialize") ->
         {ResultLine(k, l.id, "initialize", InitResult(v))}
    [] l.method = M("tools/list") /\ HasToolsList(v) ->
         {ResultLine(k, l.id, "tools/list", ListedTools(v))}
    [] l.method = M("tools/call") ->
         IF ToolName(l) \in {M(t) : t \in Tools(v)}
           THEN {ResultLine(k, l.id, "content", tx) : tx \in ToolTexts(v, l)}
           ELSE {ErrorLine(k, l.id, MethodNotFound, <<"Unknown tool: ">> \o Fmt(ToolName(l)))}
    [] OTHER ->
         {ErrorLine(k, l.id, MethodNotFound, <<"Unknown method: ">> \o Fmt(l.method))}

\* C19: what a request is answered with is a function of the variant and the
\* request, not of the flag: whether initialized is true or false when it is
\* handled, a request with an id gets one response out of Answers, a message
\* without id gets none, initialize alone is followed by a declaration, and
\* the requests that end the loop by a fault are the same.
C19_FlagIndependentResponse ==
  /\ (cur.kind = "object" /\ status = "handled")
       => /\ ~Crashes(variant, cur)
          /\ Len(Declarations(WrittenFor(n)))
               = IF IsRequest(cur, "initialize") THEN 1 ELSE 0
          /\ IF IdPresent(cur)
               THEN /\ Len(Responses(WrittenFor(n))) = 1
                    /\ Responses(WrittenFor(n))[1] \in Answers(variant, cur, n)
               ELSE Responses(WrittenFor(n)) = <<>>
  /\ status = "fatal" => (cur.kind = "nonobject" \/ Crashes(variant, cur))

C19_Witness ==
  /\ ~initialized
  /\ inits = 0
  /\ n = 2
  /\ status = "handled"
  /\ Len(out) = 2
  /\ out[1].src = 1
  /\ out[1].tag = "tools/list"
  /\ out[1].body = "result"
  /\ out[2].src = 2
  /\ out[2].tag = "content"

\* C20: whenever the server is about to read a line, everything written for
\* the earlier lines has been flushed: the stdout buffer is empty and the
\* last response built is among the lines the client received; the output
\* lines are in the order of the input lines that caused them, and none is
\* written for a line that has not been read.
C20_SequentialProcessing ==
  /\ pc = "readline"
       => /\ buf = <<>>
          /\ resp # NoResp => \E i \in DOMAIN out : out[i] = resp
  /\ \A i, j \in DOMAIN Written : i < j => Written[i].src <= Written[j].src
  /\ \A i \in DOMAIN Written : Written[i].src >= 1 /\ Written[i].src <= n
  /\ \A i \in DOMAIN buf : buf[i].src = n

C20_Witness ==
  /\ pc = "readline"
  /\ n = 2
  /\ status = "handled"
  /\ buf = <<>>
  /\ Len(out) = 3
  /\ out[1].src = 1
  /\ out[2].src = 2
  /\ out[3].src = 2
  /\ IsDeclaration(out[3])

\* C21: only an initialize message changes the flag: every step that changes
\* it is the assignment in the initialize branch, so reading and handling
\* tools/list, tools/call, an unknown method, a blank line or a malformed
\* line leaves it as it was.
C21_OnlyInitializeSetsFlag ==
  [][ /\ initialized' # initialized
         => (IsRequest(cur, "initialize") /\ cur' = cur /\ pc = "setinit")
      /\ (cur'.kind # "none" /\ ~IsRequest(cur', "initialize"))
         => initialized' = initialized ]_vars

C21_Witness ==
  /\ initialized
  /\ inits = 1
  /\ n = 2
  /\ IsRequest(cur, "tools/call")
  /\ status = "handled"
  /\ pc = "readline"
  /\ Len(out) = 2
  /\ IsDeclaration(out[1])
  /\ out[2].tag = "content"

\* C22: a broken output pipe is terminal: once a flush of a response or of
\* the declaration has failed, the loop has ended, with the flag true or
\* false, the idle wait is not entered, and no step reads a line or writes
\* anything afterwards.
C22_BrokenPipeTerminal ==
  /\ [](status = "pipe" => pc = "done")
  /\ [][status = "pipe" => UNCHANGED <<n, cur, pc, out, buf, initialized>>]_vars
  /\ [][(status' = "pipe" /\ status # "pipe")
          => (pc \in {"flush", "decl_flush"} /\ pc' = "done" /\ n' = n)]_vars

C22_Witness ==
  /\ status = "pipe"
  /\ pc = "done"
  /\ initialized
  /\ IsRequest(cur, "initialize")
  /\ n = 1
  /\ out = <<>>
  /\ Len(buf) = 1
  /\ IsDeclaration(buf[1])

\* C23: the idle wait is absorbing: it is entered only at end-of-stream with
\* the flag true and nothing left to flush, and no step taken in it reads a
\* line, writes or flushes a line or changes the flag; it is left only by a
\* signal, and then the process has exited.
C23_IdleAbsorbing ==
  /\ [](pc = "idle" => (initialized /\ status = "eof" /\ buf = <<>>))
  /\ [][pc = "idle"
          => /\ UNCHANGED <<n, cur, out, buf, initialized, status>>
             /\ pc' = "idle" \/ (pc' = "exited" /\ signalled')]_vars

C23_Witness ==
  /\ pc = "idle"
  /\ ticks = 1
  /\ n = 2
  /\ inits = 1
  /\ Len(out) = 3
  /\ ~signalled

\* the characters of the line are white space, and there is at least one
IsWhiteText(cs) == cs # <<>> /\ \A i \in DOMAIN cs : cs[i] \in {" ", "\t", "\n"}

\* C24: reading a blank or whitespace-only line is a single step that
\* writes nothing, leaves the flag as it was and brings the loop back to
\* readline, not to the end-of-stream handling; nothing is ever written for
\* such a line.
C24_BlankLineSkipped ==
  /\ [](IsWhiteText(cur.raw)
          => /\ WrittenFor(n) = <<>>
             /\ resp = NoResp
             /\ pc \in {"readline", "idle", "done", "exited"}
             /\ status \in {"blank", "eof"})
  /\ [][(n' = n + 1 /\ IsWhiteText(cur'.raw))
          => /\ pc' = "readline"
             /\ status' = "blank"
             /\ UNCHANGED <<initialized, out, buf>>]_vars

C24_Witness ==
  /\ prev = "blank"
  /\ status = "handled"
  /\ n = 2
  /\ pc = "readline"
  /\ Len(Responses(out)) = 1
  /\ out[1].src = 2

\* the request names the tool t in its params and leaves out the arguments
\* or the field the tool reads
OmitsArgument(l, t) ==
  /\ NamesTool(l, t)
  /\ IdPresent(l)
  /\ l.arguments = "absent" \/ (l.arguments = "obj" /\ l.arg = Absent)

\* C25: a tools/call request with a non-null id that names a registered tool
\* and leaves out params.arguments or the tool's argument field never ends
\* the loop by a fault and is answered by one result computed from the
\* default: "" for echo, reverse and word_count, "today" for
\* get_availability, "Frisco, Colorado" for weather.
C25_ArgumentDefaults ==
  \A i \in DOMAIN ToolSeq(variant) :
    OmitsArgument(cur, ToolSeq(variant)[i])
      => /\ status # "fatal"
         /\ status = "handled"
              => /\ Len(WrittenFor(n)) = 1
                 /\ WrittenFor(n)[1].body = "result"
                 /\ WrittenFor(n)[1].tag = "content"
                 /\ cur.name = M("echo") => WrittenFor(n)[1].text = <<"Echo: ">>
                 /\ cur.name = M("reverse") => WrittenFor(n)[1].text = <<"Reversed: ">>
                 /\ cur.name = M("word_count")
                      => WrittenFor(n)[1].text
                           = <<"Text Analysis:", "Words: ", "0", "Characters: ", "0",
                               "Characters (no spaces): ", "0", "Lines: ", "0">>
                 /\ cur.name = M("get_availability")
                      => WrittenFor(n)[1].text
                           = <<"Availability for ", "date.today()", "TABLE">>
                 /\ cur.name = M("weather")
                      => \/ /\ Len(WrittenFor(n)[1].text) = 2
                            /\ WrittenFor(n)[1].text[2] = "Frisco, Colorado"
                         \/ /\ variant = "xjg"
                            /\ WrittenFor(n)[1].text
                                 \in {<<"Network error getting weather">>,
                                      <<"Error processing weather data">>}

C25_Witness ==
  /\ NamesTool(cur, "weather")
  /\ cur.arguments = "absent"
  /\ variant = "xavier"
  /\ status = "handled"
  /\ Len(out) = 1
  /\ out[1].text = <<"weather:ok", "Frisco, Colorado">>

\* the request is a get_availability call with an id whose date is the
\* string cs
AsksDate(l, cs) ==
  NamesTool(l, "get_availability") /\ IdPresent(l) /\ l.arguments = "obj"
    /\ l.arg = JStr(cs)

\* C26: get_availability with a date string never ends the loop by a fault
\* and is answered by one result, the day label followed by the fixed
\* table; the label is today when the string is neither "today" nor
\* "tomorrow" in any case nor a date in the format YYYY-MM-DD.
C26_AvailabilityFallback ==
  (variant = "xavier" /\ NamesTool(cur, "get_availability") /\ IdPresent(cur)
     /\ cur.arguments = "obj" /\ cur.arg.t = "str")
    => /\ status # "fatal"
       /\ status = "handled"
            => /\ Len(WrittenFor(n)) = 1
               /\ WrittenFor(n)[1].body = "result"
               /\ Len(WrittenFor(n)[1].text) >= 3
               /\ Head(WrittenFor(n)[1].text) = "Availability for "
               /\ WrittenFor(n)[1].text[Len(WrittenFor(n)[1].text)] = "TABLE"
               /\ (Lower(cur.arg.s) \notin {T_today, T_tomorrow} /\ ~ParsesAsDate(cur.arg.s))
                    => WrittenFor(n)[1].text
                         = <<"Availability for ", "date.today()", "TABLE">>
               /\ Lower(cur.arg.s) = T_tomorrow
                    => WrittenFor(n)[1].text
                         = <<"Availability for ", "date.today()+1", "TABLE">>

C26_Witness ==
  /\ variant = "xavier"
  /\ AsksDate(cur, <<"x">>)
  /\ status = "handled"
  /\ ~signalled
  /\ pc = "readline"
  /\ Len(out) = 1
  /\ out[1].body = "result"
  /\ out[1].text = <<"Availability for ", "date.today()", "TABLE">>

\* C27: a line that decodes to a value that is not an object is not
\* dropped: nothing is written for it, the loop never returns to readline
\* after it, and unless a signal arrives first its decoding ends the loop by
\* a fault, with the flag true or false and without the idle wait.
C27_NonObjectIsFatal ==
  /\ [](cur.kind = "nonobject"
          => /\ pc \in {"decode", "done", "exited"}
             /\ WrittenFor(n) = <<>>
             /\ status \in {"reading", "fatal", "signal"}
             /\ pc = "done" <=> status = "fatal")
  /\ [][cur.kind = "nonobject" => (n' = n /\ cur' = cur /\ out' = out)]_vars

C27_Witness ==
  /\ cur.kind = "nonobject"
  /\ status = "fatal"
  /\ pc = "done"
  /\ n = 2
  /\ initialized
  /\ Len(out) = 2

\* C28: a message is a notification exactly when its id is null or missing:
\* with either, no response is ever built or written and the tool name is
\* not read, and once handled the only line written for it is the
\* declaration of an initialize; with the id 0, "" or false the handled
\* request has exactly one response, carrying that id with its JSON type.
C28_IdNullOrAbsentOnly ==
  /\ (cur.kind = "object" /\ cur.id \in {Absent, JNull})
       => /\ resp = NoResp
          /\ tool_name = Absent
          /\ Responses(WrittenFor(n)) = <<>>
          /\ status # "fatal"
          /\ status = "handled"
               => Len(WrittenFor(n)) = IF IsRequest(cur, "initialize") THEN 1 ELSE 0
  /\ (cur.kind = "object" /\ cur.id \in {JInt(0), JStr(<<>>), JBool(FALSE)}
        /\ status = "handled")
       => /\ Len(Responses(WrittenFor(n))) = 1
          /\ Responses(WrittenFor(n))[1].id = cur.id
          /\ "id" \in Responses(WrittenFor(n))[1].keys

C28_Witness ==
  /\ IsRequest(cur, "tools/call")
  /\ cur.id = JBool(FALSE)
  /\ status = "handled"
  /\ Len(out) = 1
  /\ out[1].id = JBool(FALSE)
  /\ out[1].body = "result"

\* C29: an initialize message is accepted however many came before it: once
\* handled, the flag is true, nothing is left in the stdout buffer and the
\* loop is back at readline, after the second as after the first; with an
\* id it is answered by the same result, protocolVersion "2024-11-05",
\* capabilities {tools: {}} and the serverInfo.
C29_RepeatableHandshake ==
  /\ (IsRequest(cur, "initialize") /\ status = "handled")
       => /\ initialized
          /\ buf = <<>>
          /\ pc \in {"readline", "exited"}
          /\ IdPresent(cur)
               => /\ Len(Responses(WrittenFor(n))) = 1
                  /\ Responses(WrittenFor(n))[1].id = cur.id
                  /\ Responses(WrittenFor(n))[1].body = "result"
                  /\ Len(Responses(WrittenFor(n))[1].text) = 4
                  /\ Responses(WrittenFor(n))[1].text[1] = "2024-11-05"
                  /\ Responses(WrittenFor(n))[1].text[2] = "capabilities: {tools: {}}"
                  /\ Responses(WrittenFor(n))[1].text[3]
                       \in {"frisco-weather-server", "xjg-server"}
  /\ \A i, j \in DOMAIN Written :
       (Written[i].tag = "initialize" /\ Written[j].tag = "initialize")
         => Written[i].text = Written[j].text

C29_Witness ==
  /\ inits = 2
  /\ n = 2
  /\ status = "handled"
  /\ initialized
  /\ pc = "readline"
  /\ Len(out) = 4
  /\ out[1].tag = "initialize"
  /\ out[3].tag = "initialize"
  /\ out[1].text = out[3].text
  /\ out[1].id # out[3].id

====
